---- MODULE Spec2Model ----
(***************************************************************************)
(* Pilot-job layer of saga-cpp-legacy-projects:                            *)
(*   applications/bigjob/condor/bigjob_condor.py   (glidein pilot)         *)
(*   applications/bigjob/azure/bigjob_azure.py     (worker-role pilot)     *)
(*   applications/bigjob/**/example-manyjob.py     (many-job driver)       *)
(*   applications/pilotstore/.../pilotstore_manager.py                     *)
(*   language-bindings/pysaga/src/saga/task.py     (Task contract)         *)
(*   language-bindings/jysaga/src/saga/job.py      (StdIO)                 *)
(* Client calls are made by threads; a call that performs several backend  *)
(* calls and can be preempted between them is one step per backend call,   *)
(* so that the calls of two threads interleave as the Python code allows.  *)
(***************************************************************************)
EXTENDS Integers, Sequences, FiniteSets, TLC

VARIABLES
    bj_state,     \* bigjob_condor.state            (self.state)
    has_js,       \* bigjob_condor: job_service / subjobs attributes exist
    glidein,      \* bigjob_condor: SAGA state of condor_glidein_job ("None": no attribute)
    subjobs,      \* bigjob_condor.subjobs : pilot -> [job id -> job_dict]
    saga_job,     \* SAGA state of the saga job created for each sub-job id
    az_container, \* azure: the blob container named app_id exists
    az_state_blob,\* azure: content of the STATE blob ("None": no such blob)
    az_job_blob,  \* azure: "state" entry of each sub-job blob ("None": no such blob)
    az_queue,     \* azure: messages of the queue named app_id
    az_deployment,\* azure: status of the "staging" deployment
    pilot_url,    \* bigjob_azure.pilot_url is set
    job_states,   \* many-job driver: job_states, the state recorded per sub-job
    pilot_stores, \* PilotStoreService.pilot_stores: ids of the stores it holds
    next_ps,      \* source of fresh uuid1 values for PilotStore ids
    ps_remote,    \* file manager: state of each pilot store directory
    pilot_data,   \* PilotStore.pilot_data: store -> ids of the pilot data it indexes
    fm_pd,        \* file manager: store -> pilot data id -> its remote directory exists
    pool,         \* many_job_service: the resource list, in the order of the specs
    rr,           \* many_job_service: round-robin cursor into the pool
    nextId,       \* source of fresh uuid1 values
    EOF_reached,  \* StdIO.EOF_reached (FALSE: None)
    delegateObject, \* StdIO.delegateObject: the java.io.InputStream of the job
    error,        \* Object.convertException: the exception converted last and the result
    pc,           \* per thread: the call in progress
    ret           \* outcome of the call completed last (by any thread)

condorVars == <<bj_state, has_js, glidein, subjobs, saga_job>>
azureVars == <<az_container, az_state_blob, az_job_blob, az_queue, az_deployment, pilot_url>>
storeVars == <<pilot_stores, next_ps, ps_remote, pilot_data, fm_pd>>
svcVars == <<pool, rr>>
stdioVars == <<EOF_reached, delegateObject>>
convVars == <<error>>
vars == <<bj_state, has_js, glidein, subjobs, saga_job,
          az_container, az_state_blob, az_job_blob, az_queue, az_deployment, pilot_url,
          job_states, pilot_stores, next_ps, ps_remote, pilot_data, fm_pd,
          pool, rr, nextId, EOF_reached, delegateObject, error, pc, ret>>

----------------------------------------------------------------------------
(* Bounds *)
MaxJobs == 2          \* sub-job ids handed out in one behaviour
MaxQueue == 3         \* messages held by the azure queue
MaxStores == 2        \* create_pilotstore calls in one behaviour
MaxPd == 1            \* distinct pilot data objects
MaxBytes == 2         \* bytes buffered by the stream of a job

Threads       == {"t1", "t2"}
CondorPilots  == {"c1", "c2"}
SharedPilots  == {"c1"}       \* the condor pilot the client threads call directly
AzurePilots   == {"a1", "a2"}
SharedAzure   == {"a1"}       \* the azure pilot the client threads call directly
Poller        == {"t1"}       \* the thread that runs the many-job driver
JobIds        == 1 .. MaxJobs
StoreIds      == 1 .. MaxStores
PdIds         == 1 .. MaxPd
NoJob         == 0
STOP          == 0            \* the queue message "STOP"; sub-job messages are job ids

SagaFinal     == {"Done", "Canceled", "Failed"}
SagaStates    == {"New", "Running"} \cup SagaFinal

EmptyFn == [j \in {} |-> "x"]

Idle == [op |-> "idle", p |-> "none", job |-> NoJob, pre |-> "none"]

Outcome(op, p, pre, res, job) ==
    [op |-> op, p |-> p, pre |-> pre, res |-> res, job |-> job]

NoOutcome == Outcome("none", "none", "none", "none", NoJob)

----------------------------------------------------------------------------
(* SAGA task contract used by the condor pilot (saga.job.job).             *)

run_state_any(s) == "Running"

\* Task.run: NEW -> RUNNING, any other state raises IncorrectState.
SagaRunState(s) == IF s = "New" THEN "Running" ELSE s
SagaRunResult(s) == IF s = "New" THEN "ok" ELSE "IncorrectState"

cancel_state_unless_new(s) == IF s = "New" THEN s ELSE "Canceled"

\* Task.cancel: RUNNING -> CANCELED, final states unchanged, NEW raises.
SagaCancelState(s) == IF s = "Running" THEN "Canceled" ELSE s
SagaCancelResult(s) == IF s = "New" THEN "IncorrectState" ELSE "ok"

\* The backend is contacted to start a NEW task and to cancel a RUNNING
\* one; when it fails the call raises NoSuccess (or Timeout) and the state
\* stays as it was.  In every other state the outcome is that of the state
\* check alone.
saga_run(s, run_ok) ==
    IF s = "New" /\ ~run_ok
      THEN [state |-> s, res |-> "NoSuccess"]
      ELSE [state |-> SagaRunState(s), res |-> SagaRunResult(s)]

saga_cancel(s, cancel_ok) ==
    IF s = "Running" /\ ~cancel_ok
      THEN [state |-> s, res |-> "NoSuccess"]
      ELSE [state |-> SagaCancelState(s), res |-> SagaCancelResult(s)]

----------------------------------------------------------------------------
(* bigjob_condor *)

\* Variants of get_state with a defect: the state seen when the glidein job
\* was submitted is reported for ever; a final state is not reported.
get_state_stale(p) == IF glidein[p] = "None" THEN "None" ELSE "Running"

get_state_hides_failure(p) == IF glidein[p] = "Failed" THEN "Running" ELSE glidein[p]

get_state_never_final(p) == IF glidein[p] \in SagaFinal THEN "Running" ELSE glidein[p]

\* bigjob_condor.get_state: state of the glidein job; without a glidein job
\* the attribute lookup fails.
condor_get_state(p) == glidein[p]

condor_get_state_result(p) == IF glidein[p] = "None" THEN "AttributeError" ELSE "ok"

\* Variant of get_state_of_subjob with a defect: the state of the saga job
\* is computed and not returned.
get_state_of_subjob_no_return(p, j) == "None"

\* bigjob_condor.get_state_of_subjob
condor_get_state_of_subjob(p, j) ==
    IF j \in DOMAIN subjobs[p] THEN saga_job[subjobs[p][j].saga_job] ELSE "None"

Done(t, outcome) ==
    /\ pc' = [pc EXCEPT ![t] = Idle]
    /\ ret' = outcome

\* Variant of start_pilot_job with a defect: the glidein job is shared by
\* all pilots.
start_glidein_shared(p, args_ok, run_ok) ==
    [q \in CondorPilots |->
        IF ~args_ok THEN glidein[q] ELSE saga_run("New", run_ok).state]

\* bigjob_condor.start_pilot_job. project/queue/userproxy default to None and
\* are concatenated to strings (lines 70-71): args_ok = FALSE is a call that
\* leaves one of them out and raises TypeError before the glidein job is
\* created; run_ok = FALSE is a glidein job whose run() raises.
start_glidein(p, args_ok, run_ok) ==
    [glidein EXCEPT ![p] =
        IF ~args_ok THEN @ ELSE saga_run("New", run_ok).state]

start_result(args_ok, run_ok) ==
    IF ~args_ok THEN "TypeError" ELSE saga_run("New", run_ok).res

condor_start_pilot_job(t, p) ==
    /\ pc[t] = Idle
    /\ \E args_ok \in BOOLEAN, run_ok \in BOOLEAN :
        /\ subjobs' = [subjobs EXCEPT ![p] = EmptyFn]
        /\ has_js' = [has_js EXCEPT ![p] = TRUE]
        /\ glidein' = start_glidein(p, args_ok, run_ok)
        /\ Done(t, Outcome("start_pilot_job", p, condor_get_state(p),
                           start_result(args_ok, run_ok), NoJob))
    /\ UNCHANGED <<bj_state, saga_job, nextId, azureVars, job_states, storeVars, stdioVars, convVars, svcVars>>

record_subjob_under_first(p, j) ==
    [subjobs EXCEPT !["c1"] =
        [k \in DOMAIN @ \cup {j} |->
            IF k = j THEN [state |-> "New", saga_job |-> j] ELSE @[k]]]

record_subjob_in_all(p, j) ==
    [q \in CondorPilots |->
        [k \in DOMAIN subjobs[q] \cup {j} |->
            IF k = j THEN [state |-> "New", saga_job |-> j] ELSE subjobs[q][k]]]

\* bigjob_condor.add_subjob, lines 84-88: the job_dict entered in subjobs.
record_subjob(p, j) ==
    [subjobs EXCEPT ![p] =
        [k \in DOMAIN @ \cup {j} |->
            IF k = j THEN [state |-> "New", saga_job |-> j] ELSE @[k]]]

\* bigjob_condor.add_subjob, line 89: sj.run().
run_subjob(jobs, j, run_ok) ==
    [jobs EXCEPT ![j] = saga_run(@, run_ok).state]

run_result(jobs, j, run_ok) ==
    saga_run(jobs[j], run_ok).res

\* bigjob_condor.add_subjob, line 83: job_service.create_job(jd).
create_job(j) == [saga_job EXCEPT ![j] = "New"]

\* bigjob_condor.add_subjob, lines 82-88: create the saga job and record it.
condor_add_subjob_record(t, p) ==
    /\ pc[t] = Idle
    /\ nextId <= MaxJobs
    /\ IF ~has_js[p]
         THEN /\ Done(t, Outcome("add_subjob", p, condor_get_state(p), "AttributeError", NoJob))
              /\ UNCHANGED <<condorVars, nextId, azureVars, job_states, storeVars, stdioVars, convVars, svcVars>>
         ELSE \E create_ok \in BOOLEAN :
              IF ~create_ok
                THEN /\ Done(t, Outcome("add_subjob", p, condor_get_state(p), "NoSuccess", NoJob))
                     /\ nextId' = nextId + 1
                     /\ UNCHANGED <<condorVars, azureVars, job_states, storeVars, stdioVars, convVars, svcVars>>
                ELSE /\ saga_job' = create_job(nextId)
                     /\ subjobs' = record_subjob(p, nextId)
                     /\ nextId' = nextId + 1
                     /\ pc' = [pc EXCEPT ![t] =
                            [op |-> "add_subjob", p |-> p, job |-> nextId,
                             pre |-> condor_get_state(p)]]
                     /\ UNCHANGED <<bj_state, has_js, glidein, ret, azureVars, job_states, storeVars, stdioVars, convVars, svcVars>>

\* bigjob_condor.add_subjob, lines 89-90: sj.run() and return.
condor_add_subjob_run(t) ==
    /\ pc[t].op = "add_subjob"
    /\ pc[t].p \in CondorPilots
    /\ LET j == pc[t].job IN
       \E run_ok \in BOOLEAN :
        /\ saga_job' = run_subjob(saga_job, j, run_ok)
        /\ Done(t, Outcome("add_subjob", pc[t].p, pc[t].pre,
                           run_result(saga_job, j, run_ok), j))
    /\ UNCHANGED <<bj_state, has_js, glidein, subjobs, nextId, azureVars, job_states, storeVars, stdioVars, convVars, svcVars>>

\* bigjob_condor.cancel_subjob (also subjob.delete_job and subjob.__del__).
condor_cancel_subjob(t, p, j) ==
    /\ pc[t] = Idle
    /\ IF has_js[p] /\ j \in DOMAIN subjobs[p]
         THEN \E cancel_ok \in BOOLEAN :
              LET sj == subjobs[p][j].saga_job IN
              /\ saga_job' = [saga_job EXCEPT ![sj] = saga_cancel(@, cancel_ok).state]
              /\ Done(t, Outcome("cancel_subjob", p, condor_get_state(p),
                                 saga_cancel(saga_job[sj], cancel_ok).res, j))
         ELSE /\ Done(t, Outcome("cancel_subjob", p, condor_get_state(p),
                                 IF has_js[p] THEN "None" ELSE "AttributeError", j))
              /\ UNCHANGED saga_job
    /\ UNCHANGED <<bj_state, has_js, glidein, subjobs, nextId, azureVars, job_states, storeVars, stdioVars, convVars, svcVars>>

\* bigjob_condor.cancel: cancel the glidein job.
cancel_glidein(p, cancel_ok) ==
    [glidein EXCEPT ![p] = saga_cancel(@, cancel_ok).state]

cancel_result(p, cancel_ok) ==
    IF glidein[p] = "None" THEN "AttributeError"
    ELSE saga_cancel(glidein[p], cancel_ok).res

condor_cancel(t, p) ==
    /\ pc[t] = Idle
    /\ \E cancel_ok \in BOOLEAN :
        /\ glidein' = cancel_glidein(p, cancel_ok)
        /\ Done(t, Outcome("cancel", p, condor_get_state(p),
                           cancel_result(p, cancel_ok), NoJob))
    /\ UNCHANGED <<bj_state, has_js, subjobs, saga_job, nextId, azureVars, job_states, storeVars, stdioVars, convVars, svcVars>>

\* Task.run and Task.cancel called on the saga job of a sub-job, the handle
\* kept in job_dict["saga_job"].
Task_run(t, j) ==
    /\ pc[t] = Idle
    /\ saga_job[j] # "None"
    /\ \E run_ok \in BOOLEAN :
        /\ saga_job' = [saga_job EXCEPT ![j] = saga_run(@, run_ok).state]
        /\ Done(t, Outcome("run", "none", saga_job[j], saga_run(saga_job[j], run_ok).res, j))
    /\ UNCHANGED <<bj_state, has_js, glidein, subjobs, nextId, azureVars, job_states, storeVars, stdioVars, convVars, svcVars>>

Task_cancel(t, j) ==
    /\ pc[t] = Idle
    /\ saga_job[j] # "None"
    /\ \E cancel_ok \in BOOLEAN :
        /\ saga_job' = [saga_job EXCEPT ![j] = saga_cancel(@, cancel_ok).state]
        /\ Done(t, Outcome("cancel", "none", saga_job[j],
                           saga_cancel(saga_job[j], cancel_ok).res, j))
    /\ UNCHANGED <<bj_state, has_js, glidein, subjobs, nextId, azureVars, job_states, storeVars, stdioVars, convVars, svcVars>>

\* The glidein job ends by itself: the script sleeps for the wall time and
\* exits (line 64), or the resource manager kills it.
glidein_ends(p) ==
    /\ glidein[p] = "Running"
    /\ \E s \in {"Done", "Failed"} : glidein' = [glidein EXCEPT ![p] = s]
    /\ UNCHANGED <<bj_state, has_js, subjobs, saga_job, nextId, pc, ret, azureVars, job_states, storeVars, stdioVars, convVars, svcVars>>

\* A sub-job's saga job ends.
subjob_ends(j) ==
    /\ saga_job[j] = "Running"
    /\ \E s \in {"Done", "Failed"} : saga_job' = [saga_job EXCEPT ![j] = s]
    /\ UNCHANGED <<bj_state, has_js, glidein, subjobs, nextId, pc, ret, azureVars, job_states, storeVars, stdioVars, convVars, svcVars>>


----------------------------------------------------------------------------
(* bigjob_azure.  Every instance uses app_id = APPLICATION_NAME (line 62), *)
(* so all pilots address the same container, queue and deployment.         *)

RemoteStates == {"Unknown", "New", "Running", "Done", "Failed", "Canceled"}

\* bigjob_azure.get_state / get_state_detail: the content of the STATE blob.
azure_get_state(a) == IF az_container THEN az_state_blob ELSE "None"

\* BlobStorage.put_blob stores into an existing container only; the result
\* code is logged by the callers and never inspected.
put_blob(blob, content) == IF az_container THEN content ELSE blob

\* bigjob_azure.start_pilot_job: write the STATE blob, then
\* start_azure_worker_roles, which returns silently when the deployment
\* request does not succeed.
azure_start_pilot_job(t, a) ==
    /\ pc[t] = Idle
    /\ \E deploy_ok \in BOOLEAN :
        /\ pilot_url' = [pilot_url EXCEPT ![a] = TRUE]
        /\ az_state_blob' = put_blob(az_state_blob, "Unknown")
        /\ az_deployment' = IF deploy_ok THEN "Running" ELSE az_deployment
        /\ Done(t, Outcome("start_pilot_job", a, azure_get_state(a), "ok", NoJob))
    /\ UNCHANGED <<condorVars, az_container, az_job_blob, az_queue, job_states, storeVars, stdioVars, convVars, svcVars, nextId>>

\* bigjob_azure.cancel (also __del__), line 133: queue.put_message(app_id, "STOP").
azure_cancel_stop(t, a) ==
    /\ pc[t] = Idle
    /\ Len(az_queue) < MaxQueue
    /\ az_queue' = Append(az_queue, STOP)
    /\ pc' = [pc EXCEPT ![t] =
                [op |-> "cancel", p |-> a, job |-> NoJob, pre |-> azure_get_state(a)]]
    /\ UNCHANGED <<condorVars, az_container, az_state_blob, az_job_blob, az_deployment,
                   pilot_url, job_states, storeVars, stdioVars, convVars, svcVars, nextId, ret>>

\* bigjob_azure.cancel, lines 134-135: delete the container, then
\* stop_azure_worker_roles, whose first statement uses the name h that is
\* bound nowhere in its scope (line 98): it raises NameError before any
\* deployment request is made.
azure_cancel_release(t) ==
    /\ pc[t].op = "cancel"
    /\ az_container' = FALSE
    /\ az_state_blob' = "None"
    /\ az_job_blob' = [j \in JobIds |-> "None"]
    /\ Done(t, Outcome("cancel", pc[t].p, pc[t].pre, "NameError", NoJob))
    /\ UNCHANGED <<condorVars, az_queue, az_deployment, pilot_url, job_states, storeVars, stdioVars, convVars, svcVars, nextId>>

\* bigjob_azure.add_subjob, lines 140-144: create the sub-job blob; its
\* "state" entry is state.Unknown (create_jd_json, line 171).
azure_add_subjob_blob(t, a) ==
    /\ pc[t] = Idle
    /\ nextId <= MaxJobs
    /\ az_job_blob' = [az_job_blob EXCEPT ![nextId] = put_blob(@, "Unknown")]
    /\ nextId' = nextId + 1
    /\ pc' = [pc EXCEPT ![t] =
                [op |-> "add_subjob", p |-> a, job |-> nextId, pre |-> azure_get_state(a)]]
    /\ UNCHANGED <<condorVars, az_container, az_state_blob, az_queue, az_deployment,
                   pilot_url, job_states, storeVars, stdioVars, convVars, svcVars, ret>>

\* bigjob_azure.add_subjob, lines 146-149: queue message, return the job id.
azure_add_subjob_message(t) ==
    /\ pc[t].op = "add_subjob"
    /\ pc[t].p \in AzurePilots
    /\ Len(az_queue) < MaxQueue
    /\ az_queue' = Append(az_queue, pc[t].job)
    /\ Done(t, Outcome("add_subjob", pc[t].p, pc[t].pre, "ok", pc[t].job))
    /\ UNCHANGED <<condorVars, az_container, az_state_blob, az_job_blob, az_deployment,
                   pilot_url, job_states, storeVars, stdioVars, convVars, svcVars, nextId>>

\* bigjob_azure.get_subjob_state: the "state" entry of the sub-job blob;
\* json.loads raises when there is no blob.
azure_get_subjob_state(j) == IF az_container THEN az_job_blob[j] ELSE "None"

\* The worker-role agent reports through the blobs: it writes the state of
\* the pilot and of a sub-job whose blob exists.
agent_writes_state(s) ==
    /\ az_container
    /\ az_deployment = "Running"
    /\ az_state_blob # "None"
    /\ az_state_blob' = s
    /\ UNCHANGED <<condorVars, az_container, az_job_blob, az_queue, az_deployment,
                   pilot_url, job_states, storeVars, stdioVars, convVars, svcVars, nextId, pc, ret>>

agent_writes_subjob(j, s) ==
    /\ az_container
    /\ az_deployment = "Running"
    /\ az_job_blob[j] # "None"
    /\ az_job_blob' = [az_job_blob EXCEPT ![j] = s]
    /\ UNCHANGED <<condorVars, az_container, az_state_blob, az_queue, az_deployment,
                   pilot_url, job_states, storeVars, stdioVars, convVars, svcVars, nextId, pc, ret>>

\* The agent takes the message at the head of the queue.
agent_pops ==
    /\ az_deployment = "Running"
    /\ az_queue # <<>>
    /\ az_queue' = Tail(az_queue)
    /\ UNCHANGED <<condorVars, az_container, az_state_blob, az_job_blob, az_deployment,
                   pilot_url, job_states, storeVars, stdioVars, convVars, svcVars, nextId, pc, ret>>

----------------------------------------------------------------------------
(* many-job driver (example-manyjob.py) *)

\* The state strings a backend reports to the driver: states of the agent,
\* one in another letter case and one no table knows.
BackendStrings == {"Unknown", "Done", "DONE", "Pending"}

\* The characters of a state string.
Spelling(s) ==
    CASE s = "None"     -> <<"N", "o", "n", "e">>
      [] s = "Unknown"  -> <<"U", "n", "k", "n", "o", "w", "n">>
      [] s = "New"      -> <<"N", "e", "w">>
      [] s = "Running"  -> <<"R", "u", "n", "n", "i", "n", "g">>
      [] s = "Done"     -> <<"D", "o", "n", "e">>
      [] s = "DONE"     -> <<"D", "O", "N", "E">>
      [] s = "Failed"   -> <<"F", "a", "i", "l", "e", "d">>
      [] s = "Canceled" -> <<"C", "a", "n", "c", "e", "l", "e", "d">>
      [] s = "Pending"  -> <<"P", "e", "n", "d", "i", "n", "g">>

UpperCase == <<"A", "B", "C", "D", "E", "F", "G", "H", "I", "J", "K", "L", "M",
               "N", "O", "P", "Q", "R", "S", "T", "U", "V", "W", "X", "Y", "Z">>
LowerCase == <<"a", "b", "c", "d", "e", "f", "g", "h", "i", "j", "k", "l", "m",
               "n", "o", "p", "q", "r", "s", "t", "u", "v", "w", "x", "y", "z">>

\* str.lower, character by character.
lower_char(c) ==
    IF \E i \in DOMAIN UpperCase : UpperCase[i] = c
      THEN LowerCase[CHOOSE i \in DOMAIN UpperCase : UpperCase[i] = c]
      ELSE c

lower(w) == [i \in DOMAIN w |-> lower_char(w[i])]

has_finished_unless_active(state) ==
    lower(Spelling(state)) \notin {<<"n", "e", "w">>,
                                   <<"r", "u", "n", "n", "i", "n", "g">>}

\* has_finished, lines 22-27 (trunk: 36-41).
has_finished(state) ==
    lower(Spelling(state)) \in {<<"d", "o", "n", "e">>,
                                <<"f", "a", "i", "l", "e", "d">>,
                                <<"c", "a", "n", "c", "e", "l", "e", "d">>}

\* The script has ended (after line 107).
Exited == [op |-> "exit", p |-> "none", job |-> NoJob, pre |-> "none"]

\* The driver is about to call mjs.cancel(): at line 99 after the break of
\* the polling loop ("break"), or in the except handler, line 104, with mjs
\* bound ("except") or not yet bound ("unbound").
Leaving(path) == [op |-> "mjs_cancel", p |-> "none", job |-> NoJob, pre |-> path]

\* The name mjs is bound (line 55): the service was created, which starts
\* the pilots; sub-jobs are created through it.
mjs_bound == nextId > 1 \/ \E a \in AzurePilots : pilot_url[a]

\* The position in the polling loop: the index of the sub-job polled next
\* and whether every sub-job polled so far in this pass was finished
\* (finish_counter equal to the number of sub-jobs polled).
Polling(i, all_finished) ==
    [op |-> "poll", p |-> "none", job |-> i,
     pre |-> IF all_finished THEN "all" ELSE "some"]

\* One iteration of the polling loop for the sub-job j of an azure pilot,
\* lines 79-97 (trunk: 90-123).  The loop is entered when the sub-jobs are
\* submitted and polls them in order, pass after pass; a pass in which
\* every sub-job was finished ends the loop (lines 96-97).  When get_state
\* raises, nothing is recorded and the exception leaves the loop for the
\* except handler of the script (line 102).  The outcome holds old_state
\* and whether the pass counted the sub-job as finished.
driver_poll_azure(t, j) ==
    /\ j < nextId
    /\ \/ pc[t] = Idle /\ j = 1
       \/ pc[t].op = "poll" /\ pc[t].job = j
    /\ LET state == azure_get_subjob_state(j)
           all_finished == (pc[t] = Idle \/ pc[t].pre = "all") /\ has_finished(state) IN
       IF state = "None"
         THEN /\ pc' = [pc EXCEPT ![t] = Leaving("except")]
              /\ ret' = Outcome("poll", "none", "none", "Error", j)
              /\ UNCHANGED job_states
         ELSE /\ job_states' = [job_states EXCEPT ![j] = state]
              /\ ret' = Outcome("poll", "none", job_states[j],
                                IF has_finished(state) THEN "finished"
                                                       ELSE "unfinished", j)
              /\ pc' = [pc EXCEPT ![t] =
                          IF j + 1 < nextId THEN Polling(j + 1, all_finished)
                          ELSE IF all_finished THEN Leaving("break")
                          ELSE Polling(1, TRUE)]
    /\ UNCHANGED <<condorVars, azureVars, storeVars, stdioVars, convVars, svcVars, nextId>>

\* A statement of the try block before the polling loop raises (lines
\* 31-75: the constructor of the service, create_job, run): control goes to
\* the except handler.
driver_raises(t) ==
    /\ pc[t] = Idle
    /\ pc' = [pc EXCEPT ![t] = Leaving(IF mjs_bound THEN "except" ELSE "unbound")]
    /\ ret' = Outcome("driver", "none", "none", "Error", NoJob)
    /\ UNCHANGED <<condorVars, azureVars, job_states, storeVars, stdioVars, convVars, svcVars, nextId>>

\* many_job_service.cancel: the pilot is canceled (bigjob_azure.cancel,
\* lines 131-135: STOP on the queue, the container deleted).
many_job_cancel ==
    [queue |-> IF Len(az_queue) < MaxQueue THEN Append(az_queue, STOP) ELSE az_queue,
     container |-> FALSE,
     state_blob |-> "None",
     job_blob |-> [j \in JobIds |-> "None"]]

driver_skips_cancel_after_break(t) ==
    /\ pc[t].op = "mjs_cancel"
    /\ pc' = [pc EXCEPT ![t] = Exited]
    /\ ret' = Outcome("exit", "none", pc[t].pre, "ok", NoJob)
    /\ UNCHANGED <<condorVars, azureVars, job_states, storeVars, stdioVars, convVars, svcVars, nextId>>

\* The call of mjs.cancel(): line 99 on the normal path, where an exception
\* of the call leads to the handler and to a second call; line 104 in the
\* handler, where every exception is swallowed (lines 105-106), also the
\* NameError of an unbound mjs.
driver_mjs_cancel(t) ==
    /\ pc[t].op = "mjs_cancel"
    /\ IF pc[t].pre = "unbound"
         THEN /\ pc' = [pc EXCEPT ![t] = Exited]
              /\ ret' = Outcome("mjs_cancel", "none", "unbound", "NameError", NoJob)
              /\ UNCHANGED azureVars
         ELSE \E cancel_ok \in BOOLEAN :
              /\ az_queue' = many_job_cancel.queue
              /\ az_container' = many_job_cancel.container
              /\ az_state_blob' = many_job_cancel.state_blob
              /\ az_job_blob' = many_job_cancel.job_blob
              /\ UNCHANGED <<az_deployment, pilot_url>>
              /\ ret' = Outcome("mjs_cancel", "none", pc[t].pre,
                                IF cancel_ok THEN "ok" ELSE "Error", NoJob)
              /\ pc' = [pc EXCEPT ![t] =
                          IF pc[t].pre = "break" /\ ~cancel_ok
                            THEN Leaving("except") ELSE Exited]
    /\ UNCHANGED <<condorVars, job_states, storeVars, stdioVars, convVars, svcVars, nextId>>

----------------------------------------------------------------------------
(* pilotstore_manager.py: PilotStore and PilotStoreService.  The calls run *)
(* on the thread of the client ("t1").                                     *)

\* The outcome of a call on a store tells, as the state before the call, the
\* store and what its index held; NoPre for the calls on the service.
NoPre == [ps |-> NoJob, index |-> {}]

otherVars == <<condorVars, azureVars, job_states, svcVars, nextId, stdioVars, convVars>>

\* PilotStoreService.create_pilotstore with PilotStore.__init__: the id is
\* drawn first (line 47); the file manager then initialises the store
\* directory and the coordination adaptor registers it; either may raise, and
\* the exception leaves create_pilotstore before the store is entered in
\* pilot_stores (line 146).
create_pilotstore(t) ==
    /\ pc[t] = Idle
    /\ next_ps <= MaxStores
    /\ next_ps' = next_ps + 1
    /\ \E init_ok \in BOOLEAN, add_ps_ok \in BOOLEAN :
        /\ ps_remote' = [ps_remote EXCEPT ![next_ps] = IF init_ok THEN "ready" ELSE @]
        /\ pilot_stores' = IF init_ok /\ add_ps_ok
                             THEN pilot_stores \cup {next_ps} ELSE pilot_stores
        /\ Done(t, Outcome("create_pilotstore", "none", NoPre,
                           IF init_ok /\ add_ps_ok THEN "ok" ELSE "NoSuccess", next_ps))
    /\ UNCHANGED <<otherVars, pilot_data, fm_pd>>

\* PilotStoreService.get_pilotstore
get_pilotstore(ps_id) == IF ps_id \in pilot_stores THEN ps_id ELSE NoJob

\* PilotStoreService.list_pilotstores
list_pilotstores == pilot_stores

\* The string service_url + "/" + str(pd.id) for the store ps: its parts.
service_url_slash(ps, pd) == <<"service_url", ps, "/", pd>>

\* PilotStore.url_for_pd, lines 75-78: that string for a pd in the index,
\* None (the empty tuple) for any other.
url_for_pd(ps, pd) ==
    IF pd \in pilot_data[ps] THEN service_url_slash(ps, pd) ELSE <<>>

\* PilotStore.list_pilotdata
list_pilotdata(ps) == pilot_data[ps]

\* A client calls get_pilotstore(ps_id), lines 149-152: the store, or None
\* for an id the service does not hold.
call_get_pilotstore(t, ps_id) ==
    /\ pc[t] = Idle
    /\ Done(t, Outcome("get_pilotstore", "none", NoPre,
                       IF get_pilotstore(ps_id) = NoJob THEN "None" ELSE "store", ps_id))
    /\ UNCHANGED <<otherVars, storeVars>>

\* A client calls url_for_pd(pd) on a store, lines 75-78: the URL, or None
\* for a pd the store does not index.
call_url_for_pd(t, ps, pd) ==
    /\ pc[t] = Idle
    /\ ps \in pilot_stores
    /\ Done(t, Outcome("url_for_pd", "none", NoPre,
                       IF url_for_pd(ps, pd) = <<>> THEN "None" ELSE "url", pd))
    /\ UNCHANGED <<otherVars, storeVars>>

\* Variant of put_pd with a defect: the index entry is made first.
put_pd_index_first(t, ps, pd) ==
    /\ pc[t] = Idle
    /\ ps \in pilot_stores
    /\ \E create_ok \in BOOLEAN, put_ok \in BOOLEAN :
        /\ fm_pd' = [fm_pd EXCEPT ![ps][pd] = IF create_ok THEN TRUE ELSE @]
        /\ pilot_data' = [pilot_data EXCEPT ![ps] = @ \cup {pd}]
        /\ Done(t, Outcome("put_pd", "none", NoPre,
                           IF create_ok /\ put_ok THEN "ok" ELSE "NoSuccess", pd))
    /\ UNCHANGED <<otherVars, pilot_stores, next_ps, ps_remote>>

\* PilotStore.put_pd: create_pd, then put_pd of the file manager, then the
\* index entry; an exception of either call leaves before line 85.
put_pd(t, ps, pd) ==
    /\ pc[t] = Idle
    /\ ps \in pilot_stores
    /\ \E create_ok \in BOOLEAN, put_ok \in BOOLEAN :
        /\ fm_pd' = [fm_pd EXCEPT ![ps][pd] = IF create_ok THEN TRUE ELSE @]
        /\ pilot_data' = [pilot_data EXCEPT ![ps] =
                        IF create_ok /\ put_ok THEN @ \cup {pd} ELSE @]
        /\ Done(t, Outcome("put_pd", "none", [ps |-> ps, index |-> pilot_data[ps]],
                           IF create_ok /\ put_ok THEN "ok" ELSE "NoSuccess", pd))
    /\ UNCHANGED <<otherVars, pilot_stores, next_ps, ps_remote>>

\* Variant of remove_pd with a defect: the index entry is not deleted.
remove_pd_keeps_entry(t, ps, pd) ==
    /\ pc[t] = Idle
    /\ ps \in pilot_stores
    /\ fm_pd' = [fm_pd EXCEPT ![ps][pd] = FALSE]
    /\ Done(t, Outcome("remove_pd", "none", NoPre, "ok", pd))
    /\ UNCHANGED <<otherVars, pilot_stores, next_ps, ps_remote, pilot_data>>

\* PilotStore.remove_pd, lines 88-92; pre: pd was in the index.
remove_pd(t, ps, pd) ==
    /\ pc[t] = Idle
    /\ ps \in pilot_stores
    /\ IF pd \in pilot_data[ps]
         THEN \E remove_ok \in BOOLEAN :
              /\ fm_pd' = [fm_pd EXCEPT ![ps][pd] = IF remove_ok THEN FALSE ELSE @]
              /\ pilot_data' = [pilot_data EXCEPT ![ps] =
                                    IF remove_ok THEN @ \ {pd} ELSE @]
              /\ Done(t, Outcome("remove_pd", "none", [ps |-> ps, index |-> pilot_data[ps]],
                                 IF remove_ok THEN "ok" ELSE "NoSuccess", pd))
         ELSE /\ Done(t, Outcome("remove_pd", "none", NoPre, "ok", pd))
              /\ UNCHANGED <<fm_pd, pilot_data>>
    /\ UNCHANGED <<otherVars, pilot_stores, next_ps, ps_remote>>

\* PilotStore.cancel: delete the store directory.
pilotstore_cancel(t, ps) ==
    /\ pc[t] = Idle
    /\ ps \in pilot_stores
    /\ \E delete_ok \in BOOLEAN :
        /\ ps_remote' = [ps_remote EXCEPT ![ps] = IF delete_ok THEN "deleted" ELSE @]
        /\ Done(t, Outcome("pilotstore_cancel", "none", NoPre,
                           IF delete_ok THEN "ok" ELSE "NoSuccess", ps))
    /\ UNCHANGED <<otherVars, pilot_stores, next_ps, pilot_data, fm_pd>>

\* Variant of service_cancel with a defect: the canceled stores are dropped
\* from pilot_stores.
service_cancel_forgets(t) ==
    /\ pc[t] = Idle
    /\ \E failing \in pilot_stores \cup {NoJob} :
       \E done \in SUBSET (pilot_stores \ {failing}) :
        /\ failing = NoJob => done = pilot_stores
        /\ ps_remote' = [ps \in StoreIds |->
                            IF ps \in done THEN "deleted" ELSE ps_remote[ps]]
        /\ pilot_stores' = pilot_stores \ done
        /\ Done(t, Outcome("service_cancel", "none", NoPre,
                           IF failing = NoJob THEN "ok" ELSE "NoSuccess", failing))
    /\ UNCHANGED <<otherVars, next_ps, pilot_data, fm_pd>>

\* PilotStoreService.cancel (also __del__): the loop over
\* pilot_stores.values() calls cancel on each store and is left by the first
\* exception; "done" are the stores visited before that.
service_cancel(t) ==
    /\ pc[t] = Idle
    /\ \E failing \in pilot_stores \cup {NoJob} :
       \E done \in SUBSET (pilot_stores \ {failing}) :
        /\ failing = NoJob => done = pilot_stores
        /\ ps_remote' = [ps \in StoreIds |->
                            IF ps \in done THEN "deleted" ELSE ps_remote[ps]]
        /\ Done(t, Outcome("service_cancel", "none", NoPre,
                           IF failing = NoJob THEN "ok" ELSE "NoSuccess", failing))
    /\ UNCHANGED <<otherVars, pilot_stores, next_ps, pilot_data, fm_pd>>

----------------------------------------------------------------------------
(* many_job_service (many_job.py), the service the many-job driver calls.  *)
(* Its pilots are bigjob_condor objects; the placement, the pool and the   *)
(* orphaning follow sections 4.1, 4.3 and 5 of the specification.          *)

Range(q) == {q[i] : i \in 1 .. Len(q)}

\* list_resources / get_resources
list_resources == pool

\* list_by_pilot
list_by_pilot(p) == DOMAIN subjobs[p]

\* Placement policy: the pool positions whose pilot reports Running.
placeable == {i \in 1 .. Len(pool) : condor_get_state(pool[i]) = "Running"}

\* Round robin: the first placeable position after the cursor.
rr_distance(i) == (i - rr - 1) % Len(pool)

rr_next == CHOOSE i \in placeable : \A k \in placeable : rr_distance(i) <= rr_distance(k)

\* many_job_service(resource_list, ...): one pilot per spec is started and
\* entered in the pool, whether or not its start succeeds.
svc_create(t) ==
    /\ pc[t] = Idle
    /\ pool = <<>>
    /\ \A p \in CondorPilots : ~has_js[p]
    /\ \E specs \in {<<>>} \cup {<<p>> : p \in CondorPilots}
                    \cup {<<p, q>> : p, q \in CondorPilots} :
       \E args_ok \in [CondorPilots -> BOOLEAN], run_ok \in [CondorPilots -> BOOLEAN] :
        /\ Cardinality(Range(specs)) = Len(specs)
        /\ \A p \in CondorPilots \ Range(specs) : args_ok[p] /\ run_ok[p]
        /\ pool' = specs
        /\ has_js' = [p \in CondorPilots |-> p \in Range(specs)]
        /\ glidein' = [p \in CondorPilots |->
                          IF p \in Range(specs)
                            THEN start_glidein(p, args_ok[p], run_ok[p])[p]
                            ELSE glidein[p]]
        /\ Done(t, Outcome("create_service", "none", "none",
                           IF \A p \in Range(specs) : args_ok[p] /\ run_ok[p]
                             THEN "ok" ELSE "errors", NoJob))
    /\ UNCHANGED <<bj_state, subjobs, saga_job, rr, azureVars, job_states, storeVars, stdioVars, convVars, nextId>>

\* add_resource: start one more pilot and append it to the pool.
svc_add_resource(t, p) ==
    /\ pc[t] = Idle
    /\ p \notin Range(pool)
    /\ ~has_js[p]
    /\ \E args_ok \in BOOLEAN, run_ok \in BOOLEAN :
        /\ pool' = Append(pool, p)
        /\ has_js' = [has_js EXCEPT ![p] = TRUE]
        /\ glidein' = start_glidein(p, args_ok, run_ok)
        /\ Done(t, Outcome("add_resource", p, condor_get_state(p),
                           start_result(args_ok, run_ok), NoJob))
    /\ UNCHANGED <<bj_state, subjobs, saga_job, rr, azureVars, job_states, storeVars, stdioVars, convVars, nextId>>

\* submit (create_job + run of the driver), selection: the next Running
\* pilot in round-robin order, NoCapacity when there is none.
svc_submit_select(t) ==
    /\ pc[t] = Idle
    /\ nextId <= MaxJobs
    /\ IF placeable = {}
         THEN /\ Done(t, Outcome("submit", "none", "none", "NoCapacity", NoJob))
              /\ rr' = rr
         ELSE /\ pc' = [pc EXCEPT ![t] =
                    [op |-> "submit", p |-> pool[rr_next], job |-> NoJob,
                     pre |-> condor_get_state(pool[rr_next])]]
              /\ rr' = rr_next
              /\ ret' = ret
    /\ UNCHANGED <<condorVars, pool, azureVars, job_states, storeVars, stdioVars, convVars, nextId>>

\* submit, dispatch: the state of the selected pilot is checked again; on a
\* mismatch the selection is repeated, otherwise the sub-job is handed to
\* add_subjob of the pilot (lines 82-90 of bigjob_condor.py).
svc_submit_dispatch(t) ==
    /\ pc[t].op = "submit"
    /\ LET p == pc[t].p
           j == nextId IN
       IF p \in Range(pool) /\ condor_get_state(p) = "Running"
         THEN \E create_ok \in BOOLEAN, run_ok \in BOOLEAN :
              /\ subjobs' = IF create_ok THEN record_subjob(p, j) ELSE subjobs
              /\ saga_job' = IF create_ok THEN run_subjob(create_job(j), j, run_ok)
                                          ELSE saga_job
              /\ nextId' = nextId + 1
              /\ rr' = rr
              /\ Done(t, Outcome("submit", p, pc[t].pre,
                                 IF create_ok THEN run_result(create_job(j), j, run_ok)
                                              ELSE "NoSuccess",
                                 IF create_ok THEN j ELSE NoJob))
         ELSE /\ IF placeable = {}
                   THEN /\ Done(t, Outcome("submit", "none", "none", "NoCapacity", NoJob))
                        /\ rr' = rr
                   ELSE /\ pc' = [pc EXCEPT ![t] =
                              [op |-> "submit", p |-> pool[rr_next], job |-> NoJob,
                               pre |-> condor_get_state(pool[rr_next])]]
                        /\ rr' = rr_next
                        /\ ret' = ret
              /\ UNCHANGED <<subjobs, saga_job, nextId>>
    /\ UNCHANGED <<bj_state, has_js, glidein, pool, azureVars, job_states, storeVars, stdioVars, convVars>>

\* mark_orphaned_for_pilot: the records of p whose sub-job has not reached a
\* final state become Orphaned; no record is removed.
mark_orphaned_for_pilot(p) ==
    [subjobs EXCEPT ![p] =
        [j \in DOMAIN @ |->
            IF condor_get_state_of_subjob(p, j) \in {"New", "Running"}
              THEN [@[j] EXCEPT !.state = "Orphaned"]
              ELSE @[j]]]

\* remove_resource: take the pilot out of the pool, cancel it, orphan its
\* unfinished sub-jobs.
svc_remove_resource(t, p) ==
    /\ pc[t] = Idle
    /\ p \in Range(pool)
    /\ pool' = SelectSeq(pool, LAMBDA q : q # p)
    /\ rr' = IF Len(pool') = 0 THEN 0 ELSE rr % Len(pool')
    /\ subjobs' = mark_orphaned_for_pilot(p)
    /\ \E cancel_ok \in BOOLEAN :
        /\ glidein' = cancel_glidein(p, cancel_ok)
        /\ Done(t, Outcome("remove_resource", p, condor_get_state(p),
                           cancel_result(p, cancel_ok), NoJob))
    /\ UNCHANGED <<bj_state, has_js, saga_job, azureVars, job_states, storeVars, stdioVars, convVars, nextId>>

----------------------------------------------------------------------------
(* jysaga job.py: StdIO wrapping the stdout or stderr of a job, a           *)
(* java.io.InputStream.  The stream holds the bytes the job has written    *)
(* and that were not read yet; "closed" is the job having closed its end.  *)

Bytes == {"a", "nl"}
Sizes == {-1, 0, 1, 2}

frameStdIO == <<condorVars, azureVars, job_states, storeVars, svcVars, nextId, convVars>>

\* InputStream.available()
available == Len(delegateObject.buf)

\* InputStream.read(b, off, n): the number of bytes read, -1 at the end of
\* the stream.  The caller blocks while the stream is empty and not closed.
java_read(n) == IF available = 0 THEN -1 ELSE IF n < available THEN n ELSE available

consume(k) ==
    [delegateObject EXCEPT !.buf = SubSeq(@, k + 1, Len(@))]

Data(k) == IF k = 0 THEN "" ELSE "data"

at_EOF_unchecked == FALSE

\* self.EOF_reached == True, lines 1473, 1492, 1555, 1585.
at_EOF == EOF_reached = TRUE

\* The outcome of a StdIO call: the mode, the flag before the call, what is
\* returned or raised, and the number of read calls made on the stream.
StdIOReturn(t, op, blocking, res, reads) ==
    Done(t, Outcome(op, IF blocking THEN "blocking" ELSE "nonblocking",
                    IF EOF_reached THEN "True" ELSE "None", res, reads))

\* StdIO.read, lines 1431-1507.
StdIO_read(t, size, blocking) ==
    /\ pc[t] = Idle
    /\ IF size <= 0 /\ size # -1
         THEN /\ StdIOReturn(t, "read", blocking, "BadParameter", 0)
              /\ UNCHANGED stdioVars
       ELSE IF ~blocking
         THEN IF at_EOF
                THEN /\ StdIOReturn(t, "read", blocking, "None", 0)
                     /\ UNCHANGED stdioVars
              ELSE IF available = 0
                THEN /\ StdIOReturn(t, "read", blocking, "", 0)
                     /\ UNCHANGED stdioVars
              ELSE LET read == java_read(IF available >= size /\ size # -1
                                           THEN size ELSE available) IN
                   IF read >= 0
                     THEN /\ delegateObject' = consume(read)
                          /\ EOF_reached' = EOF_reached
                          /\ StdIOReturn(t, "read", blocking, Data(read), 1)
                     ELSE /\ EOF_reached' = TRUE
                          /\ delegateObject' = delegateObject
                          /\ StdIOReturn(t, "read", blocking, "None", 1)
         ELSE IF at_EOF
                THEN /\ StdIOReturn(t, "read", blocking, "", 0)
                     /\ UNCHANGED stdioVars
              ELSE /\ available > 0 \/ delegateObject.closed
                   /\ LET read == java_read(IF size # -1 THEN size
                                            ELSE IF available = 0 THEN 4096
                                            ELSE available) IN
                      IF read >= 0
                        THEN /\ delegateObject' = consume(read)
                             /\ EOF_reached' = EOF_reached
                             /\ StdIOReturn(t, "read", blocking, Data(read), 1)
                        ELSE /\ EOF_reached' = TRUE
                             /\ delegateObject' = delegateObject
                             /\ StdIOReturn(t, "read", blocking, "", 1)
    /\ UNCHANGED frameStdIO

\* The non-blocking loops of readline, lines 1561-1582: one byte per read
\* call, up to n bytes, stopping after a newline.  All n bytes are
\* available, so no read of the loop meets the end of the stream.
LineLength(n) ==
    IF \E i \in 1 .. n : delegateObject.buf[i] = "nl"
      THEN CHOOSE i \in 1 .. n :
              /\ delegateObject.buf[i] = "nl"
              /\ \A k \in 1 .. i - 1 : delegateObject.buf[k] # "nl"
      ELSE n

\* StdIO.readline, lines 1512-1613.  available() is called before the flag
\* is looked at (line 1552).  In the blocking case the byte read first is
\* compared through tempArray[i] (line 1599) before i is bound.
StdIO_readline(t, size, blocking) ==
    /\ pc[t] = Idle
    /\ IF size <= 0 /\ size # -1
         THEN /\ StdIOReturn(t, "readline", blocking, "BadParameter", 0)
              /\ UNCHANGED stdioVars
       ELSE IF ~blocking
         THEN IF at_EOF
                THEN /\ StdIOReturn(t, "readline", blocking, "None", 0)
                     /\ UNCHANGED stdioVars
              ELSE IF available = 0
                THEN /\ StdIOReturn(t, "readline", blocking, "", 0)
                     /\ UNCHANGED stdioVars
              ELSE LET n == IF size # -1 /\ size < available THEN size ELSE available
                       k == LineLength(n) IN
                   /\ delegateObject' = consume(k)
                   /\ EOF_reached' = EOF_reached
                   /\ StdIOReturn(t, "readline", blocking, Data(k), k)
         ELSE IF at_EOF
                THEN /\ StdIOReturn(t, "readline", blocking, "", 0)
                     /\ UNCHANGED stdioVars
              ELSE /\ available > 0 \/ delegateObject.closed
                   /\ IF java_read(1) = -1
                        THEN /\ EOF_reached' = TRUE
                             /\ delegateObject' = delegateObject
                             /\ StdIOReturn(t, "readline", blocking, "", 1)
                        ELSE /\ delegateObject' = consume(1)
                             /\ EOF_reached' = EOF_reached
                             /\ StdIOReturn(t, "readline", blocking, "UnboundLocalError", 1)
    /\ UNCHANGED frameStdIO

\* The job writes a byte to its stdout.
job_writes(b) ==
    /\ ~delegateObject.closed
    /\ available < MaxBytes
    /\ delegateObject' = [delegateObject EXCEPT !.buf = Append(@, b)]
    /\ UNCHANGED <<frameStdIO, EOF_reached, pc, ret>>

\* The job ends: its stdout is closed.
job_exits ==
    /\ ~delegateObject.closed
    /\ delegateObject' = [delegateObject EXCEPT !.closed = TRUE]
    /\ UNCHANGED <<frameStdIO, EOF_reached, pc, ret>>

----------------------------------------------------------------------------
(* jysaga object.py: Object.convertException, which turns the exception of *)
(* a call into the Java SAGA engine into the Python error to raise.        *)

\* The exception classes of org.ogf.saga.error: they have getObject().
JavaSagaExceptions ==
    {"AlreadyExistsException", "AuthenticationFailedException",
     "AuthorizationFailedException", "BadParameterException",
     "DoesNotExistException", "IncorrectStateException", "IncorrectURLException",
     "NoSuccessException", "NotImplementedException", "PermissionDeniedException",
     "SagaIOException", "TimeoutException", "SagaException"}

\* Every exception a caller can hand over: those and plain Java exceptions.
JavaExceptions == JavaSagaExceptions \cup {"IOException", "RuntimeException"}

\* What getObject() yields: the interface of the attached SAGA object;
\* "none" is getObject() throwing DoesNotExistException.
AttachedObjects ==
    {"none", "Directory", "File", "NSDirectory", "NSEntry", "Job", "JobService",
     "JobSelf", "StreamService", "Stream", "RPC", "Task"}

\* The Java interfaces an attached object is an instance of.
JavaInterfaces(o) ==
    CASE o = "Directory" -> {"Directory", "NSDirectory", "NSEntry"}
      [] o = "File" -> {"File", "NSEntry"}
      [] o = "NSDirectory" -> {"NSDirectory", "NSEntry"}
      [] o = "JobSelf" -> {"JobSelf", "Job"}
      [] OTHER -> {o}

\* The isinstance chain of lines 182-192, in its order.
ObjectChain ==
    <<"Directory", "File", "NSDirectory", "NSEntry", "Job", "JobService",
      "JobSelf", "StreamService", "Stream", "RPC">>

\* Lines 170-200: the Python wrapper built for the attached object, None
\* when there is no object or no branch matches.
convert_object(o) ==
    LET hits == {i \in 1 .. Len(ObjectChain) : ObjectChain[i] \in JavaInterfaces(o)} IN
    IF hits = {} THEN "None"
    ELSE ObjectChain[CHOOSE i \in hits : \A k \in hits : i <= k]

\* The isinstance chain of lines 204-231, in its order: the Java class
\* tested and the name the branch calls.
ExceptionChain ==
    << <<"AlreadyExistsException", "AlreadyExists">>,
       <<"AuthenticationFailedException", "AuthenticationFailed">>,
       <<"AuthorizationFailedException", "AuthorizationFailed">>,
       <<"BadParameterException", "BadParameter">>,
       <<"DoesNotExistException", "DoesNotExist">>,
       <<"IncorrectStateException", "IncorrectState">>,
       <<"IncorrectURLException", "IncorrectURL">>,
       <<"NoSuccessException", "NoSuccess">>,
       <<"NotImplementedException", "NotImplemented">>,
       <<"PermissionDeniedException", "PermissionDenied">>,
       <<"SagaIOException", "sagaIO">>,
       <<"TimeoutException", "Timeout">>,
       <<"IOException", "sagaIO">> >>

\* The names bound in convertException by the import of lines 136-138.
ImportedErrors ==
    {"NotImplemented", "IncorrectURL", "BadParameter", "AlreadyExists",
     "DoesNotExist", "IncorrectState", "PermissionDenied", "AuthorizationFailed",
     "AuthenticationFailed", "Timeout", "NoSuccess"}

\* isinstance(e, cls) for the exception classes. Whether SagaIOException is
\* a subclass of NoSuccessException is a fact of the Java engine in use.
JavaIsInstance(e, cls, io_is_nosuccess) ==
    \/ e = cls
    \/ e = "SagaIOException" /\ cls = "NoSuccessException" /\ io_is_nosuccess

error_name_timeout_as_nosuccess(e, io_is_nosuccess) ==
    IF e \in {"TimeoutException", "NoSuccessException"} THEN "NoSuccess" ELSE "BadParameter"

\* Lines 204-231: the name called to build the error, NoSuccess in the else
\* branch.
error_name(e, io_is_nosuccess) ==
    LET hits == {i \in 1 .. Len(ExceptionChain) :
                    JavaIsInstance(e, ExceptionChain[i][1], io_is_nosuccess)} IN
    IF hits = {} THEN "NoSuccess"
    ELSE ExceptionChain[CHOOSE i \in hits : \A k \in hits : i <= k][2]

\* Object.convertException(e), with o what e.getObject() yields. An
\* exception without getObject() ends the call at line 159 with
\* AttributeError; a branch that calls a name that is not bound ends it
\* with NameError.
convertException(e, o, io_is_nosuccess) ==
    IF e \notin JavaSagaExceptions
      THEN [exception |-> e, attached |-> o, kind |-> "raise",
            name |-> "AttributeError", object |-> "None"]
    ELSE IF error_name(e, io_is_nosuccess) \notin ImportedErrors
      THEN [exception |-> e, attached |-> o, kind |-> "raise",
            name |-> "NameError", object |-> "None"]
    ELSE [exception |-> e, attached |-> o, kind |-> "return",
          name |-> error_name(e, io_is_nosuccess), object |-> convert_object(o)]

NoConversion ==
    [exception |-> "none", attached |-> "none", kind |-> "none",
     name |-> "none", object |-> "None"]

\* A caller converts the exception e of a Java call.
convert(e, o) ==
    /\ \E io_is_nosuccess \in BOOLEAN : error' = convertException(e, o, io_is_nosuccess)
    /\ UNCHANGED <<condorVars, azureVars, job_states, storeVars, svcVars, nextId,
                   stdioVars, pc, ret>>

----------------------------------------------------------------------------
Init ==
    /\ bj_state = [p \in CondorPilots |-> "Unknown"]
    /\ has_js = [p \in CondorPilots |-> FALSE]
    /\ glidein = [p \in CondorPilots |-> "None"]
    /\ subjobs = [p \in CondorPilots |-> EmptyFn]
    /\ saga_job = [j \in JobIds |-> "None"]
    /\ az_container = TRUE
    /\ az_state_blob = "None"
    /\ az_job_blob = [j \in JobIds |-> "None"]
    /\ az_queue = <<>>
    /\ az_deployment = "none"
    /\ pilot_url = [a \in AzurePilots |-> FALSE]
    /\ job_states = [j \in JobIds |-> "None"]
    /\ pool = <<>>
    /\ rr = 0
    /\ pilot_stores = {}
    /\ next_ps = 1
    /\ ps_remote = [ps \in StoreIds |-> "none"]
    /\ pilot_data = [ps \in StoreIds |-> {}]
    /\ fm_pd = [ps \in StoreIds |-> [pd \in PdIds |-> FALSE]]
    /\ nextId = 1
    /\ EOF_reached = FALSE
    /\ delegateObject = [buf |-> <<>>, closed |-> FALSE]
    /\ error = NoConversion
    /\ pc = [t \in Threads |-> Idle]
    /\ ret = NoOutcome

NextCondor ==
    \/ \E t \in Threads, p \in SharedPilots : condor_start_pilot_job(t, p)
    \/ \E t \in Threads, p \in SharedPilots : condor_add_subjob_record(t, p)
    \/ \E t \in Threads : condor_add_subjob_run(t)
    \/ \E t \in Threads, p \in SharedPilots, j \in JobIds : condor_cancel_subjob(t, p, j)
    \/ \E t \in Threads, p \in SharedPilots : condor_cancel(t, p)
    \/ \E p \in SharedPilots : glidein_ends(p)
    \/ \E j \in JobIds : subjob_ends(j)

SpecCondor == Init /\ [][NextCondor]_vars

\* One client working with both condor pilots and their sub-job handles.
NextPilots ==
    \/ \E t \in Poller, p \in CondorPilots : condor_start_pilot_job(t, p)
    \/ \E t \in Poller, p \in CondorPilots : condor_add_subjob_record(t, p)
    \/ \E t \in Poller : condor_add_subjob_run(t)
    \/ \E t \in Poller, p \in CondorPilots, j \in JobIds : condor_cancel_subjob(t, p, j)
    \/ \E t \in Poller, p \in CondorPilots : condor_cancel(t, p)

SpecPilots == Init /\ [][NextPilots]_vars

\* A client that also drives the saga jobs of its sub-jobs directly.
NextTask ==
    \/ \E t \in Poller, p \in SharedPilots : condor_start_pilot_job(t, p)
    \/ \E t \in Poller, p \in SharedPilots : condor_add_subjob_record(t, p)
    \/ \E t \in Poller : condor_add_subjob_run(t)
    \/ \E t \in Poller, j \in JobIds : Task_run(t, j)
    \/ \E t \in Poller, j \in JobIds : Task_cancel(t, j)
    \/ \E j \in JobIds : subjob_ends(j)

SpecTask == Init /\ [][NextTask]_vars

NextStdIO ==
    \/ \E t \in Poller, size \in Sizes, blocking \in BOOLEAN : StdIO_read(t, size, blocking)
    \/ \E t \in Poller, size \in Sizes, blocking \in BOOLEAN : StdIO_readline(t, size, blocking)
    \/ \E b \in Bytes : job_writes(b)
    \/ job_exits

SpecStdIO == Init /\ [][NextStdIO]_vars

NextConvert == \E e \in JavaExceptions, o \in AttachedObjects : convert(e, o)

SpecConvert == Init /\ [][NextConvert]_vars

NextAzure ==
    \/ \E t \in Threads, a \in SharedAzure : azure_start_pilot_job(t, a)
    \/ \E t \in Threads, a \in SharedAzure : azure_cancel_stop(t, a)
    \/ \E t \in Threads : azure_cancel_release(t)
    \/ \E t \in Threads, a \in SharedAzure : azure_add_subjob_blob(t, a)
    \/ \E t \in Threads : azure_add_subjob_message(t)
    \/ agent_writes_state("Running")
    \/ agent_pops

SpecAzure == Init /\ [][NextAzure]_vars

\* Two bigjob_azure objects: sub-jobs are added to the first, which is never
\* canceled; the second is canceled.
NextAzurePair ==
    \/ \E t \in Threads, a \in AzurePilots : azure_start_pilot_job(t, a)
    \/ \E t \in Threads, a \in AzurePilots \ SharedAzure : azure_cancel_stop(t, a)
    \/ \E t \in Threads : azure_cancel_release(t)
    \/ \E t \in Threads, a \in SharedAzure : azure_add_subjob_blob(t, a)
    \/ \E t \in Threads : azure_add_subjob_message(t)
    \/ agent_writes_state("Running")
    \/ agent_pops

SpecAzurePair == Init /\ [][NextAzurePair]_vars

NextPoll ==
    \/ \E t \in Poller, a \in SharedAzure : azure_start_pilot_job(t, a)
    \/ \E t \in Poller, a \in SharedAzure : azure_cancel_stop(t, a)
    \/ \E t \in Poller : azure_cancel_release(t)
    \/ \E t \in Poller, a \in SharedAzure : azure_add_subjob_blob(t, a)
    \/ \E t \in Poller : azure_add_subjob_message(t)
    \/ \E j \in JobIds, s \in RemoteStates : agent_writes_subjob(j, s)
    \/ \E t \in Poller, j \in JobIds : driver_poll_azure(t, j)
    \/ \E t \in Poller : driver_raises(t)
    \/ \E t \in Poller : driver_mjs_cancel(t)

SpecPoll == Init /\ [][NextPoll]_vars

\* The run of the driver script from the creation of the service to its
\* end, with sub-jobs that run and finish and a pilot that may be canceled
\* under it.
NextScript ==
    \/ \E t \in Poller, a \in SharedAzure : azure_start_pilot_job(t, a)
    \/ \E t \in Poller, a \in SharedAzure : azure_cancel_stop(t, a)
    \/ \E t \in Poller : azure_cancel_release(t)
    \/ \E t \in Poller, a \in SharedAzure : azure_add_subjob_blob(t, a)
    \/ \E t \in Poller : azure_add_subjob_message(t)
    \/ \E j \in JobIds, s \in {"Running", "Done"} : agent_writes_subjob(j, s)
    \/ \E t \in Poller, j \in JobIds : driver_poll_azure(t, j)
    \/ \E t \in Poller : driver_raises(t)
    \/ \E t \in Poller : driver_mjs_cancel(t)

SpecScript == Init /\ [][NextScript]_vars

\* The driver polling the sub-jobs of a started pilot whose agent reports
\* any of the backend strings.
NextDriver ==
    \/ \E t \in Poller, a \in SharedAzure : azure_start_pilot_job(t, a)
    \/ \E t \in Poller, a \in SharedAzure : azure_add_subjob_blob(t, a)
    \/ \E t \in Poller : azure_add_subjob_message(t)
    \/ \E j \in JobIds, s \in BackendStrings : agent_writes_subjob(j, s)
    \/ \E t \in Poller, j \in JobIds : driver_poll_azure(t, j)
    \/ \E t \in Poller : driver_mjs_cancel(t)

SpecDriver == Init /\ [][NextDriver]_vars

NextStore ==
    \/ \E t \in Poller : create_pilotstore(t)
    \/ \E t \in Poller, ps \in StoreIds, pd \in PdIds : put_pd(t, ps, pd)
    \/ \E t \in Poller, ps \in StoreIds, pd \in PdIds : remove_pd(t, ps, pd)
    \/ \E t \in Poller, ps \in StoreIds : pilotstore_cancel(t, ps)
    \/ \E t \in Poller : service_cancel(t)

SpecStore == Init /\ [][NextStore]_vars

\* The calls on the stores of a service.
NextPilotData ==
    \/ \E t \in Poller : create_pilotstore(t)
    \/ \E t \in Poller, ps \in StoreIds, pd \in PdIds : put_pd(t, ps, pd)
    \/ \E t \in Poller, ps \in StoreIds, pd \in PdIds : remove_pd(t, ps, pd)
    \/ \E t \in Poller, ps \in StoreIds, pd \in PdIds : call_url_for_pd(t, ps, pd)
    \/ \E t \in Poller, ps_id \in StoreIds : call_get_pilotstore(t, ps_id)

SpecPilotData == Init /\ [][NextPilotData]_vars

\* Creation and cancellation of the stores of a service.
NextStoreService ==
    \/ \E t \in Poller : create_pilotstore(t)
    \/ \E t \in Poller, ps \in StoreIds : pilotstore_cancel(t, ps)
    \/ \E t \in Poller : service_cancel(t)
    \/ \E t \in Poller, ps_id \in StoreIds : call_get_pilotstore(t, ps_id)

SpecStoreService == Init /\ [][NextStoreService]_vars

NextSvc ==
    \/ \E t \in Poller : svc_create(t)
    \/ \E t \in Threads, p \in CondorPilots : svc_add_resource(t, p)
    \/ \E t \in Poller : svc_submit_select(t)
    \/ \E t \in Poller : svc_submit_dispatch(t)
    \/ \E t \in Threads, p \in CondorPilots : svc_remove_resource(t, p)
    \/ \E p \in CondorPilots : glidein_ends(p)
    \/ \E j \in JobIds : subjob_ends(j)

SpecSvc == Init /\ [][NextSvc]_vars

----------------------------------------------------------------------------
(* Properties *)

\* The state a client observes for a condor pilot: get_state() once the
\* glidein job exists, the state field set by the constructor before that.
PilotState(p) == IF glidein[p] = "None" THEN bj_state[p] ELSE condor_get_state(p)

\* C1: add_subjob on a pilot that is not Running fails with IncorrectState
\* and leaves the sub-job registry as it was.
C1_SubmitRejectedUnlessRunning ==
    [][\A t \in Threads, p \in SharedPilots :
          (condor_add_subjob_record(t, p) /\ PilotState(p) # "Running")
            => /\ subjobs' = subjobs
               /\ pc'[t] = Idle
               /\ ret'.res = "IncorrectState"]_vars

\* C2: once the state recorded for a sub-job is Done, Failed or Canceled, no
\* update changes it.
C2_TerminalStateIsKept ==
    [][\A j \in JobIds :
          has_finished(job_states[j]) => job_states'[j] = job_states[j]]_vars

\* C3: cancel() on a pilot whose cancel has already run is a no-op that
\* returns success: nothing changes and no error is raised.
C3_SecondCancelIsNoOp ==
    [][\A t \in Threads :
          /\ \A a \in SharedAzure :
                (azure_cancel_stop(t, a) /\ ~az_container) => UNCHANGED azureVars
          /\ (azure_cancel_release(t) /\ ~az_container)
                => (ret'.res = "ok" /\ UNCHANGED azureVars)]_vars

\* C8: an add_subjob that started on a Running pilot and ran concurrently
\* with cancel() either returns IncorrectState or returns a sub-job that is
\* recorded and dispatched: its blob exists and its message is queued.
C8_NoSubjobLostUnderCancel ==
    [][\A t \in Threads, j \in JobIds :
          (azure_add_subjob_message(t) /\ pc[t].pre = "Running" /\ pc[t].job = j)
            => \/ ret'.res = "IncorrectState"
               \/ /\ ret'.res = "ok"
                  /\ azure_get_subjob_state(j)' # "None"
                  /\ \E i \in 1 .. Len(az_queue') : az_queue'[i] = j]_vars

PilotEdges ==
    { <<"New", "Starting">>, <<"Starting", "Running">>, <<"Starting", "Failed">>,
      <<"Running", "Failed">>, <<"Running", "Canceling">>, <<"Canceling", "Canceled">> }

\* C9: a pilot on which start_pilot_job has not run is New, and every change
\* of a pilot's state follows an edge of the pilot state machine (so that
\* Canceled and Failed are never left).
C9_PilotStateMachine ==
    [][\A p \in SharedPilots :
          /\ (~has_js[p] => PilotState(p) = "New")
          /\ (PilotState(p)' # PilotState(p)
                => <<PilotState(p), PilotState(p)'>> \in PilotEdges)]_vars

\* C10: when the release step of cancel() fails, the error reaches the
\* caller and the pilot is left in Canceling.
C10_FailedReleaseStaysCanceling ==
    [][\A t \in Threads :
          (azure_cancel_release(t) /\ ret'.res # "ok")
            => (ret'.op = "cancel" /\ azure_get_state(pc[t].p)' = "Canceling")]_vars

\* C4: after the stores for a sequence of descriptions have been created,
\* the service holds one store per description, whether or not a start
\* failed.
C4_OneStorePerSpec == Cardinality(pilot_stores) = next_ps - 1

\* C5: remove_resource keeps every record of the removed pilot, and the
\* records of its sub-jobs that had not finished are Orphaned.
C5_RemoveOrphansRecords ==
    [][\A t \in Threads, p \in CondorPilots :
          svc_remove_resource(t, p)
            => /\ DOMAIN subjobs'[p] = DOMAIN subjobs[p]
               /\ \A j \in DOMAIN subjobs[p] :
                     saga_job[j] \in {"New", "Running"}
                        => subjobs'[p][j].state = "Orphaned"]_vars

C5_Witness ==
    /\ ret.op = "remove_resource"
    /\ \E p \in CondorPilots :
          /\ ret.p = p
          /\ \E j \in DOMAIN subjobs[p] :
                subjobs[p][j].state = "Orphaned" /\ saga_job[j] = "Running"

\* C6: a sub-job is recorded only under a pilot of the pool whose glidein
\* job is Running at that moment, never under a Failed or Canceled one.
C6_PlacedOnRunningPilot ==
    [][\A p \in CondorPilots, j \in JobIds :
          (j \notin DOMAIN subjobs[p] /\ j \in DOMAIN subjobs'[p])
            => (glidein[p] = "Running" /\ p \in Range(pool))]_vars

\* The first sub-job went to the second pilot of the pool, passing over the
\* first one, which is not Running.
C6_Witness ==
    /\ ret.op = "submit"
    /\ ret.res = "ok"
    /\ ret.job = 1
    /\ Len(pool) = 2
    /\ rr = 2
    /\ glidein[pool[1]] \in {"New", "Failed"}
    /\ glidein[pool[2]] = "Running"
    /\ ret.job \in DOMAIN subjobs[pool[2]]

\* C7: submit ends with NoCapacity, without recording anything, whenever no
\* pilot of the pool is Running.
C7_NoCapacityWithoutRunningPilot ==
    [][\A t \in Poller :
          ( /\ svc_submit_select(t) \/ svc_submit_dispatch(t)
            /\ \A i \in 1 .. Len(pool) : glidein[pool[i]] # "Running" )
            => /\ ret'.op = "submit"
               /\ ret'.res = "NoCapacity"
               /\ pc'[t] = Idle
               /\ subjobs' = subjobs]_vars

C7_Witness ==
    /\ ret.op = "submit"
    /\ ret.res = "NoCapacity"
    /\ pool # <<>>
    /\ \A i \in 1 .. Len(pool) : glidein[pool[i]] \in {"New", "Done", "Failed"}

\* C11: the service cancel calls cancel on every store it holds: afterwards
\* each store is either deleted or named in the errors the call reports.
C11_CancelAllAttemptsAll ==
    [][\A t \in Poller :
          service_cancel(t)
            => \A ps \in pilot_stores :
                  ps_remote'[ps] = "deleted" \/ ret'.job = ps]_vars

\* The backend strings the state table of the driver does not know.
Unrecognized == BackendStrings \ {"New", "Running", "Done", "DONE", "Failed", "Canceled"}

\* C12 as stated: a polled state string that the table does not recognise
\* is recorded as Unknown and the sub-job is not counted as finished.
C12_UnrecognizedBecomesUnknown ==
    [][\A t \in Poller, j \in JobIds :
          (driver_poll_azure(t, j) /\ azure_get_subjob_state(j) \in Unrecognized)
            => /\ job_states'[j] = "Unknown"
               /\ ret'.res = "unfinished"]_vars

\* C12, amended: a polled state string that the table does not recognise is
\* never counted as finished; it is recorded as reported.
C12_UnrecognizedNeverFinished ==
    [][\A t \in Poller, j \in JobIds :
          (driver_poll_azure(t, j) /\ azure_get_subjob_state(j) \in Unrecognized)
            => /\ job_states'[j] = azure_get_subjob_state(j)
               /\ ~has_finished(job_states'[j])
               /\ ret'.res = "unfinished"]_vars

C12_Witness ==
    /\ ret.op = "poll"
    /\ ret.res = "unfinished"
    /\ ret.job \in JobIds
    /\ job_states[ret.job] = "Pending"

\* C13: start_pilot_job leaves the pilot Running when the deployment was
\* acquired; when it was not, the pilot is Failed, get_state_detail gives
\* the failure and the call reports it to its caller.
C13_StartReportsFailure ==
    [][\A t \in Threads, a \in SharedAzure :
          azure_start_pilot_job(t, a)
            => /\ az_deployment' = "Running"
                    => (azure_get_state(a)' = "Running" /\ ret'.res = "ok")
               /\ az_deployment' # "Running"
                    => (azure_get_state(a)' = "Failed" /\ ret'.res # "ok")]_vars

\* C14: a sub-job record, once in the registry of its pilot, stays there:
\* no call of the pilot (start, cancel, sub-job cancel) removes it.
C14_RecordsAreKept ==
    [][\A p \in SharedPilots :
          DOMAIN subjobs[p] \subseteq DOMAIN subjobs'[p]]_vars

\* C15: a start or a cancel of one pilot leaves the state record that any
\* other pilot reads through get_state as it was.
C15_BackendNotShared ==
    [][\A t \in Threads, a \in SharedAzure : \A b \in AzurePilots \ {a} :
          (azure_start_pilot_job(t, a) \/ (azure_cancel_release(t) /\ pc[t].p = a))
            => azure_get_state(b)' = azure_get_state(b)]_vars

\* C16: a sub-job record is entered under the pilot the sub-job was
\* submitted to, a pilot that has been started; it is under no other pilot
\* and never moves to another one.
C16_OwnerIsSubmitPilot ==
    [][\A p \in CondorPilots, j \in JobIds :
          j \in DOMAIN subjobs'[p]
            => /\ has_js'[p]
               /\ j \notin DOMAIN subjobs[p]
                    => \E t \in Poller : condor_add_subjob_record(t, p) /\ pc'[t].job = j
               /\ \A q \in CondorPilots \ {p} :
                     j \notin DOMAIN subjobs[q] /\ j \notin DOMAIN subjobs'[q]]_vars

C16_Witness ==
    \E j, k \in JobIds :
        /\ j # k
        /\ j \in DOMAIN subjobs["c1"]
        /\ k \in DOMAIN subjobs["c2"]

C19_EOFIsSticky ==
    [][\A t \in Poller, size \in Sizes \ {0}, blocking \in BOOLEAN :
          ( /\ EOF_reached
            /\ StdIO_read(t, size, blocking) \/ StdIO_readline(t, size, blocking) )
            => /\ ret'.res = (IF blocking THEN "" ELSE "None")
               /\ ret'.job = 0
               /\ delegateObject' = delegateObject
               /\ EOF_reached']_vars

\* A non-blocking readline after the end of the stream was met.
C19_Witness ==
    /\ ret.op = "readline"
    /\ ret.p = "nonblocking"
    /\ ret.pre = "True"
    /\ ret.res = "None"
    /\ EOF_reached

\* C20: when the first release call of cancel (the STOP message) has been
\* made on a started pilot its state reads Canceling, and an add_subjob that starts
\* while a cancel is under way is rejected without a blob being written.
C20_CancelingBeforeRelease ==
    [][\A t \in Threads, a \in SharedAzure :
          /\ (azure_cancel_stop(t, a) /\ azure_get_state(a) # "None")
                => azure_get_state(a)' = "Canceling"
          /\ (azure_add_subjob_blob(t, a) /\ \E u \in Threads : pc[u].op = "cancel")
                => (ret'.res = "IncorrectState" /\ pc'[t] = Idle /\ az_job_blob' = az_job_blob)]_vars

\* C21: cancel stops the sub-jobs the pilot owns before it releases the
\* backend resource: when a cancel has taken the glidein job to Canceled, no
\* sub-job recorded under the pilot is still waiting or running.
C21_StopBeforeRelease ==
    [][\A t \in Threads, p \in SharedPilots :
          (condor_cancel(t, p) /\ glidein'[p] = "Canceled" /\ glidein[p] # "Canceled")
            => \A j \in DOMAIN subjobs[p] : saga_job'[j] \notin {"New", "Running"}]_vars

\* C22: when add_subjob makes its dispatch call (the queue message), the
\* record of the sub-job, its blob, is in the store.
C22_RecordBeforeDispatch ==
    [][\A t \in Threads, j \in JobIds :
          (azure_add_subjob_message(t) /\ pc[t].job = j)
            => azure_get_subjob_state(j) # "None"]_vars

\* A state update the sub-job state machine does not allow: a rewind from
\* Running to New, or any change out of a terminal state.
InvalidUpdate(old, new) ==
    \/ old = "Running" /\ new = "New"
    \/ old \in {"Done", "Failed", "Canceled"} /\ new # old

\* C23: a state update that the sub-job state machine does not allow is
\* answered with InvalidTransition and the recorded state stays as it was.
C23_InvalidUpdateRejected ==
    [][\A t \in Poller, j \in JobIds :
          (driver_poll_azure(t, j) /\ InvalidUpdate(job_states[j], azure_get_subjob_state(j)))
            => /\ job_states'[j] = job_states[j]
               /\ ret'.res = "InvalidTransition"]_vars

\* C24: a status query that fails leaves the polling loop running: the next
\* sub-job is polled, later passes follow.
C24_PollLoopSurvivesFailure ==
    [][\A t \in Poller, j \in JobIds :
          (driver_poll_azure(t, j) /\ azure_get_subjob_state(j) = "None")
            => pc'[t].op = "poll"]_vars

\* C25: no status query is made for a sub-job whose recorded state is
\* terminal.
C25_NoPollAfterTerminal ==
    [][\A t \in Poller, j \in JobIds :
          driver_poll_azure(t, j) => ~has_finished(job_states[j])]_vars

\* The pilots of the pool whose glidein job is Running.
RunningPool == {p \in Range(pool) : glidein[p] = "Running"}

C27_ReselectBeforeDispatch ==
    [][\A t \in Poller, p \in CondorPilots :
          ( /\ svc_submit_dispatch(t)
            /\ pc[t].p = p
            /\ p \notin RunningPool )
            => /\ subjobs'[p] = subjobs[p]
               /\ saga_job' = saga_job
               /\ IF RunningPool = {}
                    THEN pc'[t] = Idle /\ ret'.op = "submit" /\ ret'.res = "NoCapacity"
                    ELSE pc'[t].op = "submit" /\ pc'[t].p \in RunningPool]_vars

\* remove_resource has taken the chosen pilot out of the pool while the
\* submit was between selection and dispatch, and another pilot is Running.
C27_Witness ==
    \E t \in Poller :
        /\ pc[t].op = "submit"
        /\ ret.op = "remove_resource"
        /\ ret.p = pc[t].p
        /\ glidein[pc[t].p] = "Canceled"
        /\ pc[t].p \notin Range(pool)
        /\ RunningPool # {}

DefinedPilotStates == {"New", "Starting", "Running", "Canceling", "Canceled", "Failed"}

\* C29: whenever start_pilot_job or cancel has returned, with or without an
\* error, get_state of that pilot returns one of the defined pilot states.
C29_StateAlwaysDefined ==
    \A a \in SharedAzure :
        (ret.op \in {"start_pilot_job", "cancel"} /\ ret.p = a)
          => azure_get_state(a) \in DefinedPilotStates

\* C30: a cancel of a Running pilot ends either with the pilot Canceled and
\* the deployment released, or with the pilot Canceling and the error of
\* the release attempt kept.
C30_CancelReleasesOrKeepsError ==
    [][\A t \in Threads :
          (azure_cancel_release(t) /\ pc[t].pre = "Running")
            => \/ /\ azure_get_state(pc[t].p)' = "Canceled"
                  /\ az_deployment' # "Running"
               \/ /\ azure_get_state(pc[t].p)' = "Canceling"
                  /\ ret'.res # "ok"]_vars

\* C31: the conversion keeps a timeout and a failure apart: a
\* TimeoutException is returned as Timeout, a NoSuccessException as
\* NoSuccess.
C31_TimeoutIsNotNoSuccess ==
    /\ error.exception = "TimeoutException"
          => (error.kind = "return" /\ error.name = "Timeout")
    /\ error.exception = "NoSuccessException"
          => (error.kind = "return" /\ error.name = "NoSuccess")

C31_Witness ==
    /\ error.exception = "TimeoutException"
    /\ error.attached = "JobService"
    /\ error.name = "Timeout"
    /\ error.object = "JobService"

\* C32: once the service exists, the script ends only through a call of
\* mjs.cancel(): the step that ends it is that call, made after the break of
\* the polling loop or in the except handler.
C32_CancelOnEveryExit ==
    [][\A t \in Poller :
          (pc[t] # Exited /\ pc'[t] = Exited /\ mjs_bound)
            => /\ ret'.op = "mjs_cancel"
               /\ ret'.pre \in {"break", "except"}]_vars

\* The first call of mjs.cancel(), after the break, raised; the handler
\* called it again and the script ended.
C32_Witness ==
    /\ \E t \in Poller : pc[t] = Exited
    /\ ret.op = "mjs_cancel"
    /\ ret.pre = "except"
    /\ \A j \in 1 .. nextId - 1 : has_finished(job_states[j])
    /\ nextId > 1

\* C33: for a pilot that is never canceled, every job id in the queue names
\* a sub-job blob that exists: add_subjob writes the blob before it puts the
\* message. (Stated for the behaviours in which only the second pilot is
\* canceled.)
C33_QueuedJobHasBlob ==
    \A i \in 1 .. Len(az_queue) :
        az_queue[i] # STOP => az_job_blob[az_queue[i]] # "None"

\* C34: put_pd enters pd in the index only when both file-manager calls
\* have returned; when one of them raises the index is as before, and a pd
\* that had no URL still has none.
C34_IndexAfterTransfer ==
    [][\A t \in Poller, ps \in StoreIds, pd \in PdIds :
          put_pd(t, ps, pd)
            => /\ ret'.res # "ok"
                    => /\ pilot_data' = pilot_data
                       /\ url_for_pd(ps, pd) = <<>> => url_for_pd(ps, pd)' = <<>>
               /\ (pd \notin pilot_data[ps] /\ pd \in pilot_data'[ps])
                    => (ret'.res = "ok" /\ fm_pd'[ps][pd])]_vars

\* create_pd returned, the transfer raised: the directory exists, the index
\* does not hold pd.
C34_Witness ==
    /\ ret.op = "put_pd"
    /\ ret.res = "NoSuccess"
    /\ \E ps \in pilot_stores :
          /\ fm_pd[ps][ret.job]
          /\ url_for_pd(ps, ret.job) = <<>>

\* The Python error named like the Java exception class; NoSuccess for a
\* class that is not listed.
LikeNamed(e) ==
    CASE e = "SagaIOException" -> "sagaIO"
      [] e = "IOException" -> "sagaIO"
      [] e \in {"SagaException", "RuntimeException"} -> "NoSuccess"
      [] OTHER -> SubSeq(e, 1, Len(e) - Len("Exception"))

\* C35: convertException is total: whatever exception it is given, it
\* returns an error and raises nothing itself, and the error returned is the
\* one named like the exception class, NoSuccess for any other class.
C35_ConversionIsTotal ==
    error.exception # "none"
      => /\ error.kind = "return"
         /\ error.name = LikeNamed(error.exception)

\* C36: a lookup by an id that is not registered returns None, raises
\* nothing, leaves the registry as it was and makes no backend call;
\* stated for cancel_subjob of the condor pilot.
C36_UnknownIdReturnsNone ==
    [][\A t \in Threads, p \in SharedPilots, j \in JobIds :
          (condor_cancel_subjob(t, p, j) /\ j \notin DOMAIN subjobs[p])
            => /\ ret'.res = "None"
               /\ subjobs' = subjobs
               /\ saga_job' = saga_job]_vars

\* remove_pd of a pd that is not in the index changes nothing and calls
\* nothing.
RemoveOfUnknownIsNoOp ==
    \A t \in Poller, ps \in StoreIds, pd \in PdIds :
        (remove_pd(t, ps, pd) /\ pd \notin pilot_data[ps])
          => (pilot_data' = pilot_data /\ fm_pd' = fm_pd /\ ret'.res = "ok")

\* A remove_pd(pd) on store ps that returns, right after a put_pd(pd) on ps
\* that returned.
RemoveAfterPut(t, ps, pd) ==
    /\ ret.op = "put_pd" /\ ret.res = "ok" /\ ret.job = pd /\ ret.pre.ps = ps
    /\ remove_pd(t, ps, pd)
    /\ ret'.res = "ok"

\* C37 as stated: put_pd(pd) followed by remove_pd(pd) leaves the index with
\* the content it had before the put_pd; in between pd has its URL and is
\* listed; remove_pd of a pd that is not indexed is a no-op.
C37_PutRemoveRestores ==
    [][/\ \A t \in Poller, ps \in StoreIds, pd \in PdIds :
             RemoveAfterPut(t, ps, pd)
               => /\ pilot_data'[ps] = ret.pre.index
                  /\ url_for_pd(ps, pd) = service_url_slash(ps, pd)
                  /\ pd \in list_pilotdata(ps)
       /\ RemoveOfUnknownIsNoOp]_vars

\* C37, amended: the same for a pd that was not in the index before the
\* put_pd; for a pd that was, the index has lost it.
C37_PutRemoveRestoresNewPd ==
    [][/\ \A t \in Poller, ps \in StoreIds, pd \in PdIds :
             RemoveAfterPut(t, ps, pd)
               => /\ pilot_data'[ps] = ret.pre.index \ {pd}
                  /\ pd \notin ret.pre.index => pilot_data'[ps] = ret.pre.index
                  /\ url_for_pd(ps, pd) = service_url_slash(ps, pd)
                  /\ pd \in list_pilotdata(ps)
       /\ RemoveOfUnknownIsNoOp]_vars

\* A remove_pd of an indexed pd returned: the pd has left the index, the
\* rest of the index is as before, and the pd has no URL any more.
C37_Witness ==
    /\ ret.op = "remove_pd" /\ ret.res = "ok"
    /\ ret.job \in ret.pre.index
    /\ pilot_data[ret.pre.ps] = ret.pre.index \ {ret.job}
    /\ url_for_pd(ret.pre.ps, ret.job) = <<>>


\* C38: pilot_stores holds exactly one entry per successful
\* create_pilotstore, keyed by the id of the store: a successful create adds
\* the new id, which was not a key before, a failed one adds nothing, and
\* no other call changes the collection; the cancel of a store or of the
\* service removes no entry, so that afterwards get_pilotstore(id) returns
\* the store and list_pilotstores holds it for every store created.
C38_CancelKeepsStores ==
    [][/\ \A t \in Poller :
            create_pilotstore(t) =>
                /\ ret'.job \notin pilot_stores
                /\ pilot_stores' = IF ret'.res = "ok"
                                     THEN pilot_stores \cup {ret'.job} ELSE pilot_stores
       /\ (\A t \in Poller : ~create_pilotstore(t)) => pilot_stores' = pilot_stores
       /\ \A t \in Poller :
            (service_cancel(t) \/ \E ps \in StoreIds : pilotstore_cancel(t, ps)) =>
                \A ps \in pilot_stores :
                    /\ get_pilotstore(ps)' = ps
                    /\ ps \in list_pilotstores']_vars

\* A store that was canceled is returned by get_pilotstore.
C38_Witness ==
    /\ ret.op = "get_pilotstore"
    /\ ret.res = "store"
    /\ ps_remote[ret.job] = "deleted"
    /\ ret.job \in list_pilotstores


\* The steps of the polling loop that leave it by the break of line 97 are
\* made in a pass in which every sub-job was observed in a terminal state.
BreakOnlyAfterTerminalPass ==
    [][\A t \in Poller, j \in JobIds :
          (driver_poll_azure(t, j) /\ pc'[t] = Leaving("break"))
            => \A k \in 1 .. nextId - 1 : has_finished(job_states'[k])]_vars

\* C39: the polling loop of the driver is left only in a pass in which all
\* sub-jobs were observed in a terminal state (done, failed or canceled in
\* any letter case): whenever a step of the loop is its last, the state
\* recorded for every sub-job is a terminal one.
C39_LoopExitsOnlyWhenAllTerminal ==
    [][\A t \in Poller, j \in JobIds :
          (driver_poll_azure(t, j) /\ pc'[t].op # "poll")
            => \A k \in 1 .. nextId - 1 : has_finished(job_states'[k])]_vars

====
